---- MODULE Spec2Model ----
(***************************************************************************)
(* Buffer pool manager (src/src/buffer_pool.rs) with its clock replacer    *)
(* (src/src/buffer_pool/clock_replacer.rs), page type                      *)
(* (src/src/buffer_pool/page.rs), the in-memory disk manager              *)
(* (src/src/buffer_pool/disk_manager_mock.rs) and the request handlers of  *)
(* the HTTP front end (src/src/server.rs).                                 *)
(*                                                                         *)
(* Option<T> is modelled as a sequence of length at most one: <<>> is None *)
(* and <<x>> is Some(x).  A HashMap is a function whose DOMAIN is the key  *)
(* set.  A Vec is a sequence; the source's 0-based index i is element i+1. *)
(***************************************************************************)
EXTENDS Integers, Sequences, FiniteSets, TLC

\* Pool capacity.  The source sets 4 (buffer_pool.rs:12); the model scales it.
MAX_POOL_SIZE == 2
\* Identifier ceiling of the store.  The source sets 15 (buffer_pool.rs:13).
MAX_NUM_DISK_PAGES == 4
\* Cap on a page's pin_count (an i32 in the source, grown by fetch_page hits).
MaxPin == 1
\* Page contents: the [u8; PAGE_SIZE] buffer is abstracted to one value in
\* 0..MaxData, 0 being the zero-filled buffer of Page::new.
MaxData == 1
\* Number of calls a behaviour makes (the program sets no limit): MaxOps under
\* Spec, MaxOpsDeep under SpecDeep.
MaxOps == 7
MaxOpsDeep == 9
\* Largest frame id handed to a replacer that is driven on its own (FrameId is
\* an i32; the unit test of clock_replacer.rs uses 1..6).
MaxFrameId == 2
\* Number of requests the server runs at a time (hyper spawns one task per
\* connection on a multi-threaded runtime) and of calls they make under
\* SpecServer.
NumHandlers == 2
MaxOpsServer == 4

Frames == 0 .. (MAX_POOL_SIZE - 1)
PageIds == 1 .. MAX_NUM_DISK_PAGES
DataVals == 0 .. MaxData
ReplacerFrames == 0 .. MaxFrameId
Handlers == 1 .. NumHandlers

VARIABLES
    pages,       \* BufferPoolManager.pages: Vec<Option<Box<Page>>>
    free_list,   \* BufferPoolManager.free_list: VecDeque<FrameId>
    page_table,  \* BufferPoolManager.page_table: HashMap<PageId, FrameId>
    replacer,    \* BufferPoolManager.replacer: ClockReplacer {list, current}
    num_pages,   \* DiskManagerMock.num_pages
    disk,        \* DiskManagerMock.pages: HashMap<PageId, Box<Page>>
    handle,      \* frame of the &mut Page the caller still holds, if any
    panicked,    \* a panic!("not possible!") branch was taken
    mutex,       \* server.rs: holder of the Mutex<BufferPoolManager>, if any
    pc,          \* server.rs: where each request handler stands
    snap,        \* server.rs: the response body a handler has built, if any
    deleted,     \* history: identifiers for which delete_page returned Ok
    issued,      \* history: identifiers returned by a successful new_page
    order,       \* history: frames unpinned into the replacer and not pinned
                 \* or chosen as victim since, in the order of those unpins
    nops,        \* history: number of calls made so far
    last         \* history: the call made by the last step and its result

vars == <<pages, free_list, page_table, replacer, num_pages, disk, handle,
          panicked, mutex, pc, snap, deleted, issued, order, nops, last>>

serverVars == <<mutex, pc, snap>>

poolVars == <<pages, free_list, page_table, replacer, num_pages, disk>>

----------------------------------------------------------------------------
\* HashMap helpers

EmptyMap == [k \in {} |-> 0]

Insert(m, k, v) == [x \in (DOMAIN m) \cup {k} |-> IF x = k THEN v ELSE m[x]]

Remove(m, k) == [x \in (DOMAIN m) \ {k} |-> m[x]]

----------------------------------------------------------------------------
\* page.rs

PageNew(id) == [id |-> id, pin_count |-> 1, is_dirty |-> FALSE, data |-> 0]

\* dec_pin_count: the page after the call, and the returned bool
dec_pin_count(p) ==
    LET q == IF p.pin_count > 0 THEN [p EXCEPT !.pin_count = p.pin_count - 1]
             ELSE p
    IN [page |-> q, zero |-> (q.pin_count = 0)]

----------------------------------------------------------------------------
\* clock_replacer.rs

ReplacerNew == [list |-> <<>>, current |-> 0]

\* Vec::remove(index) on a sequence, index 0-based
VecRemove(l, index) ==
    [i \in 1 .. (Len(l) - 1) |-> IF i <= index THEN l[i] ELSE l[i + 1]]

remove(r, index) ==
    LET l == VecRemove(r.list, index)
    IN [list |-> l, current |-> IF r.current >= Len(l) THEN 0 ELSE r.current]

RECURSIVE VictimLoop(_)
VictimLoop(r) ==
    IF r.list[r.current + 1][2]
    THEN VictimLoop([list |-> [r.list EXCEPT ![r.current + 1] = <<@[1], FALSE>>],
                     current |-> (r.current + 1) % Len(r.list)])
    ELSE [replacer |-> remove(r, r.current), frame |-> <<r.list[r.current + 1][1]>>]

\* the clear-and-advance steps the loop of victim() takes from r before it
\* finds a cleared reference bit, k of them taken so far; the count stops
\* one past the length of the list
RECURSIVE ScanSteps(_, _)
ScanSteps(r, k) ==
    IF k > Len(r.list) THEN k
    ELSE IF r.list[r.current + 1][2]
    THEN ScanSteps([list |-> [r.list EXCEPT ![r.current + 1] = <<@[1], FALSE>>],
                    current |-> (r.current + 1) % Len(r.list)], k + 1)
    ELSE k

\* a victim() that returns the frame under the hand and leaves it in the list
victim_no_remove(r) ==
    IF r.list = <<>> THEN [replacer |-> r, frame |-> <<>>]
    ELSE [replacer |-> r, frame |-> <<r.list[r.current + 1][1]>>]

\* a victim() that takes the frame unpinned last
victim_last(r) ==
    IF r.list = <<>> THEN [replacer |-> r, frame |-> <<>>]
    ELSE [replacer |-> remove(r, Len(r.list) - 1),
          frame |-> <<r.list[Len(r.list)][1]>>]

victim(r) ==
    IF r.list = <<>> THEN [replacer |-> r, frame |-> <<>>] ELSE VictimLoop(r)

\* an unpin() that appends without looking
unpin_always(r, id) == [r EXCEPT !.list = Append(r.list, <<id, TRUE>>)]

unpin(r, id) ==
    IF \E i \in 1 .. Len(r.list) : r.list[i][1] = id
    THEN r
    ELSE [r EXCEPT !.list = Append(r.list, <<id, TRUE>>)]

\* Iterator::position: the first index holding the frame, 0-based
Position(l, id) ==
    LET hits == {i \in 1 .. Len(l) : l[i][1] = id}
    IN IF hits = {} THEN <<>>
       ELSE <<(CHOOSE i \in hits : \A j \in hits : i <= j) - 1>>

\* a pin() that leaves the list alone
pin_keeps(r, id) == r

pin(r, id) ==
    LET pos == Position(r.list, id)
    IN IF pos = <<>> THEN r ELSE remove(r, pos[1])

----------------------------------------------------------------------------
\* disk_manager_mock.rs

read_page(d, id) == IF id \in DOMAIN d THEN <<d[id]>> ELSE <<>>

write_page(d, page) == Insert(d, page.id, page)

\* an allocate_page without the ceiling
allocate_page_no_ceiling(n) == [res |-> "Ok", num_pages |-> n + 1, id |-> n + 1]

allocate_page(n) ==
    IF n >= MAX_NUM_DISK_PAGES
    THEN [res |-> "OutOfStorage", num_pages |-> n, id |-> 0]
    ELSE [res |-> "Ok", num_pages |-> n + 1, id |-> n + 1]

deallocate_page(d, id) == Remove(d, id)

----------------------------------------------------------------------------
\* buffer_pool.rs: private helpers

get_frame_id(fl, r) ==
    IF fl # <<>>
    THEN [res |-> "Ok", frame |-> Head(fl), is_from_free_list |-> TRUE,
          free_list |-> Tail(fl), replacer |-> r]
    ELSE LET v == victim(r)
         IN IF v.frame # <<>>
            THEN [res |-> "Ok", frame |-> v.frame[1], is_from_free_list |-> FALSE,
                  free_list |-> fl, replacer |-> v.replacer]
            ELSE [res |-> "PoolExhausted", frame |-> -1, is_from_free_list |-> FALSE,
                  free_list |-> fl, replacer |-> v.replacer]

\* write_if_dirty without the write-back
write_if_dirty_no_write(pgs, pt, d, frame_id) ==
    LET existing_page == pgs[frame_id]
        swapped == [pgs EXCEPT ![frame_id] = <<>>]
    IN IF existing_page # <<>> /\ ~existing_page[1].is_dirty
       THEN [pages |-> swapped,
             page_table |-> Remove(pt, existing_page[1].id), disk |-> d]
       ELSE [pages |-> swapped, page_table |-> pt, disk |-> d]

write_if_dirty(pgs, pt, d, frame_id) ==
    LET existing_page == pgs[frame_id]
        swapped == [pgs EXCEPT ![frame_id] = <<>>]
    IN IF existing_page # <<>>
       THEN IF existing_page[1].is_dirty
            THEN [pages |-> swapped, page_table |-> pt,
                  disk |-> write_page(d, existing_page[1])]
            ELSE [pages |-> swapped,
                  page_table |-> Remove(pt, existing_page[1].id), disk |-> d]
       ELSE [pages |-> swapped, page_table |-> pt, disk |-> d]

\* new_page and fetch_page (miss) up to the store call: the frame and the
\* pool after get_frame_id and, for a victim frame, write_if_dirty
Acquire ==
    LET g == get_frame_id(free_list, replacer)
        w == IF g.res = "Ok" /\ ~g.is_from_free_list
             THEN write_if_dirty(pages, page_table, disk, g.frame)
             ELSE [pages |-> pages, page_table |-> page_table, disk |-> disk]
    IN [res |-> g.res, frame |-> g.frame,
        from |-> IF g.res # "Ok" THEN "none"
                 ELSE IF g.is_from_free_list THEN "free" ELSE "victim",
        evicted |-> IF g.res = "Ok" /\ ~g.is_from_free_list THEN pages[g.frame]
                    ELSE <<>>,
        free_list |-> g.free_list, replacer |-> g.replacer,
        pages |-> w.pages, page_table |-> w.page_table, disk |-> w.disk]

\* every call is one step of a behaviour; a panic ends the behaviour
Step ==
    /\ ~panicked
    /\ nops' = nops + 1

\* The call of a step: its arguments, its result, the frame it acted on, where
\* that frame came from ("hit": the page table, "free": the free list,
\* "victim": the replacer) and the occupant write_if_dirty took out of it.
Call(op, id, is_dirty, res, frame, from, evicted) ==
    [op |-> op, id |-> id, is_dirty |-> is_dirty, res |-> res,
     frame |-> frame, from |-> from, evicted |-> evicted]

----------------------------------------------------------------------------
\* buffer_pool.rs: BufferPoolManager::new with DiskManagerMock::new

Init ==
    /\ pages = [f \in Frames |-> <<>>]
    /\ free_list = [i \in 1 .. MAX_POOL_SIZE |-> i - 1]
    /\ page_table = EmptyMap
    /\ replacer = ReplacerNew
    /\ num_pages = 0
    /\ disk = EmptyMap
    /\ handle = <<>>
    /\ panicked = FALSE
    /\ mutex = <<>>
    /\ pc = [h \in Handlers |-> "idle"]
    /\ snap = [h \in Handlers |-> <<>>]
    /\ deleted = {}
    /\ issued = {}
    /\ order = <<>>
    /\ nops = 0
    /\ last = Call("new", 0, FALSE, "Ok", -1, "none", <<>>)

new_page ==
    /\ Step
    /\ LET a == Acquire
           al == allocate_page(num_pages)
       IN /\ free_list' = a.free_list
          /\ replacer' = a.replacer
          /\ disk' = a.disk
          /\ IF a.res # "Ok"
             THEN /\ UNCHANGED <<pages, page_table, num_pages>>
                  /\ handle' = <<>>
                  /\ last' = Call("new_page", 0, FALSE, a.res, -1, "none", <<>>)
             ELSE IF al.res # "Ok"
             THEN /\ pages' = a.pages
                  /\ page_table' = a.page_table
                  /\ UNCHANGED num_pages
                  /\ handle' = <<>>
                  /\ last' = Call("new_page", 0, FALSE, al.res, a.frame, a.from, a.evicted)
             ELSE /\ page_table' = Insert(a.page_table, al.id, a.frame)
                  /\ pages' = [a.pages EXCEPT ![a.frame] = <<PageNew(al.id)>>]
                  /\ num_pages' = al.num_pages
                  /\ handle' = <<a.frame>>
                  /\ last' = Call("new_page", al.id, FALSE, "Ok", a.frame, a.from, a.evicted)
    /\ UNCHANGED <<panicked, deleted>>

Panic(op, id, is_dirty, frame) ==
    /\ panicked' = TRUE
    /\ handle' = <<>>
    /\ last' = Call(op, id, is_dirty, "panic", frame, "none", <<>>)
    /\ UNCHANGED <<poolVars, deleted>>

fetch_page(id) ==
    /\ Step
    /\ IF id \in DOMAIN page_table
       THEN LET frame_id == page_table[id]
            IN IF pages[frame_id] # <<>>
               THEN /\ pages[frame_id][1].pin_count < MaxPin
                    /\ pages' = [pages EXCEPT ![frame_id] =
                                   <<[@[1] EXCEPT !.pin_count = @ + 1]>>]
                    /\ replacer' = pin(replacer, frame_id)
                    /\ handle' = <<frame_id>>
                    /\ last' = Call("fetch_page", id, FALSE, "Ok", frame_id, "hit", <<>>)
                    /\ UNCHANGED <<free_list, page_table, num_pages, disk,
                                   panicked, deleted>>
               ELSE Panic("fetch_page", id, FALSE, frame_id)
       ELSE LET a == Acquire
                rd == read_page(a.disk, id)
            IN /\ free_list' = a.free_list
               /\ replacer' = a.replacer
               /\ disk' = a.disk
               /\ IF a.res # "Ok"
                  THEN /\ UNCHANGED <<pages, page_table>>
                       /\ handle' = <<>>
                       /\ last' = Call("fetch_page", id, FALSE, a.res, -1, "none", <<>>)
                  ELSE IF rd = <<>>
                  THEN /\ pages' = a.pages
                       /\ page_table' = a.page_table
                       /\ handle' = <<>>
                       /\ last' = Call("fetch_page", id, FALSE, "PageNotFound",
                                       a.frame, a.from, a.evicted)
                  ELSE /\ page_table' = Insert(a.page_table, id, a.frame)
                       /\ pages' = [a.pages EXCEPT ![a.frame] =
                                      <<[rd[1] EXCEPT !.pin_count = 1]>>]
                       /\ handle' = <<a.frame>>
                       /\ last' = Call("fetch_page", id, FALSE, "Ok", a.frame, a.from, a.evicted)
               /\ UNCHANGED <<num_pages, panicked, deleted>>

unpin_page(id, is_dirty) ==
    /\ Step
    /\ IF id \in DOMAIN page_table
       THEN LET frame_id == page_table[id]
            IN IF pages[frame_id] # <<>>
               THEN LET d == dec_pin_count(pages[frame_id][1])
                    IN /\ replacer' = IF d.zero THEN unpin(replacer, frame_id)
                                      ELSE replacer
                       /\ pages' = [pages EXCEPT ![frame_id] =
                                      <<[d.page EXCEPT !.is_dirty = @ \/ is_dirty]>>]
                       /\ handle' = <<>>
                       /\ last' = Call("unpin_page", id, is_dirty, "Ok", frame_id, "hit", <<>>)
                       /\ UNCHANGED <<free_list, page_table, num_pages, disk,
                                      panicked, deleted>>
               ELSE Panic("unpin_page", id, is_dirty, frame_id)
       ELSE /\ handle' = <<>>
            /\ last' = Call("unpin_page", id, is_dirty, "PageNotFound", -1, "none", <<>>)
            /\ UNCHANGED <<poolVars, panicked, deleted>>

flush_page(id) ==
    /\ Step
    /\ IF id \in DOMAIN page_table
       THEN LET frame_id == page_table[id]
            IN IF pages[frame_id] # <<>>
               THEN /\ disk' = write_page(disk, pages[frame_id][1])
                    /\ pages' = [pages EXCEPT ![frame_id] =
                                   <<[@[1] EXCEPT !.is_dirty = FALSE]>>]
                    /\ handle' = <<>>
                    /\ last' = Call("flush_page", id, FALSE, "Ok", frame_id, "hit", <<>>)
                    /\ UNCHANGED <<free_list, page_table, replacer, num_pages,
                                   panicked, deleted>>
               ELSE Panic("flush_page", id, FALSE, frame_id)
       ELSE /\ handle' = <<>>
            /\ last' = Call("flush_page", id, FALSE, "PageNotFound", -1, "none", <<>>)
            /\ UNCHANGED <<poolVars, panicked, deleted>>

\* the loop of flush_all_pages from frame f on
RECURSIVE FlushFrom(_, _, _)
FlushFrom(f, pgs, d) ==
    IF f >= MAX_POOL_SIZE THEN [pages |-> pgs, disk |-> d]
    ELSE IF pgs[f] = <<>> THEN FlushFrom(f + 1, pgs, d)
    ELSE FlushFrom(f + 1,
                   [pgs EXCEPT ![f] = <<[@[1] EXCEPT !.is_dirty = FALSE]>>],
                   write_page(d, pgs[f][1]))

flush_all_pages ==
    /\ Step
    /\ LET r == FlushFrom(0, pages, disk)
       IN /\ pages' = r.pages
          /\ disk' = r.disk
    /\ handle' = <<>>
    /\ last' = Call("flush_all_pages", 0, FALSE, "Ok", -1, "none", <<>>)
    /\ UNCHANGED <<free_list, page_table, replacer, num_pages, panicked, deleted>>

delete_page(id) ==
    /\ Step
    /\ IF id \in DOMAIN page_table
       THEN LET frame_id == page_table[id]
            IN IF pages[frame_id] # <<>>
               THEN IF pages[frame_id][1].pin_count > 0
                    THEN /\ handle' = <<>>
                         /\ last' = Call("delete_page", id, FALSE, "PageStillInUse",
                                         frame_id, "hit", <<>>)
                         /\ UNCHANGED <<poolVars, panicked, deleted>>
                    ELSE /\ replacer' = pin(replacer, frame_id)
                         /\ disk' = deallocate_page(disk, id)
                         /\ free_list' = Append(free_list, frame_id)
                         /\ page_table' = Remove(page_table, id)
                         /\ deleted' = deleted \cup {id}
                         /\ handle' = <<>>
                         /\ last' = Call("delete_page", id, FALSE, "Ok", frame_id, "hit", <<>>)
                         /\ UNCHANGED <<pages, num_pages, panicked>>
               ELSE Panic("delete_page", id, FALSE, frame_id)
       ELSE /\ handle' = <<>>
            /\ last' = Call("delete_page", id, FALSE, "PageNotFound", -1, "none", <<>>)
            /\ UNCHANGED <<poolVars, panicked, deleted>>

\* The caller writes the bytes of the page it was handed (Page.data is pub)
\* while the &mut Page of the last new_page / fetch_page is still alive.
write_data(b) ==
    /\ Step
    /\ handle # <<>>
    /\ pages' = [pages EXCEPT ![handle[1]] = <<[@[1] EXCEPT !.data = b]>>]
    /\ last' = Call("write_data", pages[handle[1]][1].id, FALSE, "Ok", handle[1], "hit", <<>>)
    /\ UNCHANGED <<free_list, page_table, replacer, num_pages, disk, handle,
                   panicked, deleted>>

----------------------------------------------------------------------------
\* History of the calls

InSeq(q, x) == \E i \in 1 .. Len(q) : q[i] = x

Without(q, x) == SelectSeq(q, LAMBDA y : y # x)

\* the unpin order once the pool has called its replacer: frames the replacer
\* dropped leave it, the frame unpin_page handed over joins at the end
OrderAfter(o, r) ==
    LET kept == SelectSeq(o, LAMBDA f : \E i \in 1 .. Len(r.list) : r.list[i][1] = f)
        new == {f \in Frames : (\E i \in 1 .. Len(r.list) : r.list[i][1] = f)
                                 /\ ~InSeq(o, f)}
    IN IF new = {} THEN kept ELSE Append(kept, CHOOSE f \in new : TRUE)

History ==
    /\ issued' = IF last'.op = "new_page" /\ last'.res = "Ok"
                 THEN issued \cup {last'.id} ELSE issued
    /\ order' = OrderAfter(order, replacer')

\* a call made on the manager itself, as the tests of buffer_pool.rs make them
Direct == History /\ UNCHANGED serverVars

Next ==
    \/ nops < MaxOps /\ new_page /\ Direct
    \/ nops < MaxOps /\ (\E id \in PageIds : fetch_page(id)) /\ Direct
    \/ nops < MaxOps /\ (\E id \in PageIds : \E is_dirty \in BOOLEAN : unpin_page(id, is_dirty)) /\ Direct
    \/ nops < MaxOps /\ (\E id \in PageIds : flush_page(id)) /\ Direct
    \/ nops < MaxOps /\ flush_all_pages /\ Direct
    \/ nops < MaxOps /\ (\E id \in PageIds : delete_page(id)) /\ Direct
    \/ nops < MaxOps /\ (\E b \in DataVals : write_data(b)) /\ Direct

Spec == Init /\ [][Next]_vars

\* the same calls, in longer behaviours
NextDeep ==
    \/ nops < MaxOpsDeep /\ new_page /\ Direct
    \/ nops < MaxOpsDeep /\ (\E id \in PageIds : fetch_page(id)) /\ Direct
    \/ nops < MaxOpsDeep /\ (\E id \in PageIds : \E is_dirty \in BOOLEAN : unpin_page(id, is_dirty)) /\ Direct
    \/ nops < MaxOpsDeep /\ (\E id \in PageIds : flush_page(id)) /\ Direct
    \/ nops < MaxOpsDeep /\ flush_all_pages /\ Direct
    \/ nops < MaxOpsDeep /\ (\E id \in PageIds : delete_page(id)) /\ Direct
    \/ nops < MaxOpsDeep /\ (\E b \in DataVals : write_data(b)) /\ Direct

SpecDeep == Init /\ [][NextDeep]_vars

----------------------------------------------------------------------------
\* clock_replacer.rs driven on its own, as tests::clock_replacer drives it:
\* calls of Replacer::unpin, Replacer::pin and Replacer::victim in any order

replacer_unpin(id) ==
    /\ Step
    /\ replacer' = unpin(replacer, id)
    /\ order' = IF InSeq(order, id) THEN order ELSE Append(order, id)
    /\ last' = Call("unpin", id, FALSE, "Ok", id,
                    IF InSeq(order, id) THEN "hit" ELSE "none", <<>>)
    /\ UNCHANGED <<pages, free_list, page_table, num_pages, disk, handle,
                   panicked, serverVars, deleted, issued>>

replacer_pin(id) ==
    /\ Step
    /\ replacer' = pin(replacer, id)
    /\ order' = Without(order, id)
    /\ last' = Call("pin", id, FALSE, "Ok", id,
                    IF InSeq(order, id) THEN "hit" ELSE "none", <<>>)
    /\ UNCHANGED <<pages, free_list, page_table, num_pages, disk, handle,
                   panicked, serverVars, deleted, issued>>

replacer_victim ==
    /\ Step
    /\ LET v == victim(replacer)
       IN /\ replacer' = v.replacer
          /\ IF v.frame = <<>>
             THEN /\ order' = order
                  /\ last' = Call("victim", 0, FALSE, "None", -1, "none", <<>>)
             ELSE /\ order' = Without(order, v.frame[1])
                  /\ last' = Call("victim", 0, FALSE, "Some", v.frame[1], "victim", <<>>)
    /\ UNCHANGED <<pages, free_list, page_table, num_pages, disk, handle,
                   panicked, serverVars, deleted, issued>>

NextReplacer ==
    \/ nops < MaxOps /\ \E id \in ReplacerFrames : replacer_unpin(id)
    \/ nops < MaxOps /\ \E id \in ReplacerFrames : replacer_pin(id)
    \/ nops < MaxOps /\ replacer_victim

SpecReplacer == Init /\ [][NextReplacer]_vars

----------------------------------------------------------------------------
\* server.rs: the request handlers, each a task of the multi-threaded runtime
\* sharing one Arc<Mutex<BufferPoolManager>>.  A handler goes
\*   "idle" -route-> "start" -lock-> "locked" -core call-> "ok" | "err"
\*          -respond-> "responded" -drop_guard-> "idle".

\* DiskManagerMock::pages_on_disk: the keys of the store, sorted
RECURSIVE SortedKeys(_)
SortedKeys(ks) ==
    IF ks = {} THEN <<>>
    ELSE LET m == CHOOSE k \in ks : \A j \in ks : k <= j
         IN <<m>> \o SortedKeys(ks \ {m})

\* the loop of BufferPoolManager::response over the frames, from frame f on
RECURSIVE PinCountFrom(_, _)
PinCountFrom(f, m) ==
    IF f >= MAX_POOL_SIZE THEN m
    ELSE IF pages[f] = <<>> THEN PinCountFrom(f + 1, m)
    ELSE PinCountFrom(f + 1, Insert(m, pages[f][1].id, pages[f][1].pin_count))

response ==
    [pages_in_disk |-> SortedKeys(DOMAIN disk),
     max_pool_size |-> MAX_POOL_SIZE,
     page_table |-> page_table,
     clock_replacer |-> [clock_hand |-> replacer.current, clock |-> replacer.list],
     max_disk_num_pages |-> MAX_NUM_DISK_PAGES,
     pin_count |-> PinCountFrom(0, EmptyMap)]

\* route: a request arrives and is dispatched to its handler
route(h) ==
    /\ ~panicked
    /\ pc[h] = "idle"
    /\ pc' = [pc EXCEPT ![h] = "start"]
    /\ UNCHANGED <<poolVars, handle, panicked, mutex, snap, deleted, issued,
                   order, nops, last>>

\* a lock that does not wait for the holder to let go
lock_no_wait(h) ==
    /\ ~panicked
    /\ pc[h] = "start"
    /\ mutex' = <<h>>
    /\ pc' = [pc EXCEPT ![h] = "locked"]
    /\ UNCHANGED <<poolVars, handle, panicked, snap, deleted, issued, order,
                   nops, last>>

\* let mut m = bpm.lock().unwrap();
lock(h) ==
    /\ ~panicked
    /\ pc[h] = "start"
    /\ mutex = <<>>
    /\ mutex' = <<h>>
    /\ pc' = [pc EXCEPT ![h] = "locked"]
    /\ UNCHANGED <<poolVars, handle, panicked, snap, deleted, issued, order,
                   nops, last>>

\* the handler's core call has returned: Ok or Err
Served(h) ==
    /\ pc[h] = "locked"
    /\ History
    /\ pc' = [pc EXCEPT ![h] = IF last'.res = "Ok" THEN "ok" ELSE "err"]
    /\ UNCHANGED <<mutex, snap>>

serve_new_page(h) == new_page /\ Served(h)

serve_flush_page(h, page) == flush_page(page) /\ Served(h)

serve_delete_page(h, page) == delete_page(page) /\ Served(h)

serve_unpin_page(h, page) == unpin_page(page, FALSE) /\ Served(h)

serve_fetch_page(h, page) == fetch_page(page) /\ Served(h)

serve_flush_all(h) == flush_all_pages /\ Served(h)

\* page_param found no page in the query: BAD_REQUEST, no core call
bad_request(h) ==
    /\ ~panicked
    /\ pc[h] = "locked"
    /\ pc' = [pc EXCEPT ![h] = "err"]
    /\ UNCHANGED <<poolVars, handle, panicked, mutex, snap, deleted, issued,
                   order, nops, last>>

\* the body of the response: the snapshot m.response() after Ok, "{}" after Err
respond(h) ==
    /\ ~panicked
    /\ pc[h] \in {"ok", "err"}
    /\ snap' = [snap EXCEPT ![h] = IF pc[h] = "ok" THEN <<response>> ELSE <<>>]
    /\ pc' = [pc EXCEPT ![h] = "responded"]
    /\ UNCHANGED <<poolVars, handle, panicked, mutex, deleted, issued, order,
                   nops, last>>

\* the handler returns: the MutexGuard m goes out of scope, the response is sent
drop_guard(h) ==
    /\ ~panicked
    /\ pc[h] = "responded"
    /\ mutex' = <<>>
    /\ snap' = [snap EXCEPT ![h] = <<>>]
    /\ pc' = [pc EXCEPT ![h] = "idle"]
    /\ UNCHANGED <<poolVars, handle, panicked, deleted, issued, order, nops, last>>

NextServer ==
    \/ \E h \in Handlers : route(h)
    \/ \E h \in Handlers : lock(h)
    \/ nops < MaxOpsServer /\ \E h \in Handlers : serve_new_page(h)
    \/ nops < MaxOpsServer /\ \E h \in Handlers : \E page \in PageIds : serve_flush_page(h, page)
    \/ nops < MaxOpsServer /\ \E h \in Handlers : \E page \in PageIds : serve_delete_page(h, page)
    \/ nops < MaxOpsServer /\ \E h \in Handlers : \E page \in PageIds : serve_unpin_page(h, page)
    \/ nops < MaxOpsServer /\ \E h \in Handlers : \E page \in PageIds : serve_fetch_page(h, page)
    \/ nops < MaxOpsServer /\ \E h \in Handlers : serve_flush_all(h)
    \/ \E h \in Handlers : bad_request(h)
    \/ \E h \in Handlers : respond(h)
    \/ \E h \in Handlers : drop_guard(h)

SpecServer == Init /\ [][NextServer]_vars

----------------------------------------------------------------------------
\* Vocabulary of the properties

Pinned(f) == pages[f] # <<>> /\ pages[f][1].pin_count > 0

\* the page with identity id is in the pool: the page table maps id to a frame
\* and that frame's occupant is the page id
Resident(id) ==
    /\ id \in DOMAIN page_table
    /\ pages[page_table[id]] # <<>>
    /\ pages[page_table[id]][1].id = id

Tracked(r, f) == \E i \in 1 .. Len(r.list) : r.list[i][1] = f

InFreeList(f) == \E i \in 1 .. Len(free_list) : free_list[i] = f

\* new_page or fetch_page put a page into a frame it acquired
Installed(c) ==
    c.op \in {"new_page", "fetch_page"} /\ c.res = "Ok" /\ c.from \in {"free", "victim"}

\* every frame holds a pinned page and no frame is free
AllPinned == free_list = <<>> /\ \A f \in Frames : Pinned(f)

----------------------------------------------------------------------------
\* C1: new_page and fetch_page never install a page into a frame whose
\* occupant at the time of the call has pin_count > 0, whether the frame came
\* from the free list or from the replacer's victim().
C1_NeverInstallOverPinned ==
    [][Installed(last') => ~Pinned(last'.frame)]_vars

\* C2: a fetch_page(id) that returns Ok returns a page whose identity is id;
\* on a page-table hit the page's pin count grows by exactly 1 and its frame
\* leaves the replacer; on a miss the page read from the store is installed
\* with pin_count 1 and the page table maps id to its frame.
C2_FetchReturnsRequestedPage ==
    [][(last'.op = "fetch_page" /\ last'.res = "Ok") =>
         LET f == last'.frame
             id == last'.id
         IN /\ pages'[f] # <<>>
            /\ pages'[f][1].id = id
            /\ last'.from = "hit" =>
                 /\ pages'[f][1].pin_count = pages[f][1].pin_count + 1
                 /\ ~Tracked(replacer', f)
            /\ last'.from # "hit" =>
                 /\ pages'[f][1].pin_count = 1
                 /\ id \in DOMAIN disk'
                 /\ pages'[f][1].data = disk'[id].data
                 /\ id \in DOMAIN page_table'
                 /\ page_table'[id] = f]_vars

\* C3: delete_page(id) on a resident page whose pin_count is greater than 0
\* returns PageStillInUse and leaves the page table, free list, replacer,
\* frames and store as they were; delete_page(id) on an id that is not
\* resident returns PageNotFound.
C3_DeletePinnedOrAbsent ==
    [][last'.op = "delete_page" =>
         LET id == last'.id
         IN /\ (Resident(id) /\ Pinned(page_table[id])) =>
                 (last'.res = "PageStillInUse" /\ UNCHANGED poolVars)
            /\ ~Resident(id) => last'.res = "PageNotFound"]_vars

\* C4: once delete_page(id) has returned Ok, id is absent from the page table
\* and from the store, and no later call writes a page with identity id to the
\* store again.
C4_DeletedNeverWrittenAgain ==
    /\ (last.op = "delete_page" /\ last.res = "Ok") =>
          last.id \notin DOMAIN page_table
    /\ \A id \in deleted : id \notin DOMAIN disk

\* C5: when new_page or fetch_page reclaims a frame from the replacer and the
\* frame's occupant is dirty, the store holds the occupant's bytes under the
\* occupant's identifier once the call is over, whatever then went into the
\* frame.
C5_DirtyVictimWrittenBack ==
    [][(last'.op \in {"new_page", "fetch_page"} /\ last'.from = "victim") =>
         LET f == last'.frame
         IN (pages[f] # <<>> /\ pages[f][1].is_dirty) =>
              /\ pages[f][1].id \in DOMAIN disk'
              /\ disk'[pages[f][1].id].id = pages[f][1].id
              /\ disk'[pages[f][1].id].data = pages[f][1].data]_vars

\* an eviction has just replaced a dirty page holding bytes other than zero
C5_Witness ==
    /\ Installed(last) /\ last.from = "victim"
    /\ last.evicted # <<>> /\ last.evicted[1].is_dirty /\ last.evicted[1].data # 0
    /\ pages[last.frame][1].id # last.evicted[1].id

\* C6: after flush_page(id) returned Ok the flushed page is not dirty, and a
\* fetch_page(id) that follows returns a page with identity id whose bytes are
\* those the page held at the flush.
C6_FlushFetchRoundTrip ==
    [][(last.op = "flush_page" /\ last.res = "Ok") =>
         /\ ~pages[last.frame][1].is_dirty
         /\ (last'.op = "fetch_page" /\ last'.id = last.id) =>
              /\ last'.res = "Ok"
              /\ pages'[last'.frame][1].id = last.id
              /\ pages'[last'.frame][1].data = pages[last.frame][1].data]_vars

\* C7: with every frame holding a pinned page and an empty free list, new_page
\* and fetch_page of an id outside the page table return PoolExhausted and
\* leave the page table, frames, free list, replacer and store unchanged.
\* (The claim goes on: once one of those pages has been unpinned to
\* pin_count 0 the next new_page succeeds and reuses that page's frame.)
C7_ExhaustedChangesNothing ==
    [][(AllPinned /\ (\/ last'.op = "new_page"
                      \/ (last'.op = "fetch_page"
                          /\ last'.id \notin DOMAIN page_table))) =>
         (last'.res = "PoolExhausted" /\ UNCHANGED poolVars)]_vars

\* C8: new_page and fetch_page return PoolExhausted only when every frame
\* holds a page with pin_count > 0.
C8_ExhaustedOnlyWhenAllPinned ==
    (last.op \in {"new_page", "fetch_page"} /\ last.res = "PoolExhausted") =>
        \A f \in Frames : Pinned(f)

\* C9: a new_page that returns OutOfStorage leaves the free list, the page
\* table, the frames and the replacer as they were.
C9_OutOfStorageChangesNothing ==
    [][(last'.op = "new_page" /\ last'.res = "OutOfStorage") =>
         UNCHANGED <<free_list, page_table, pages, replacer>>]_vars

\* C10: the number of resident pages never exceeds the pool size, and the
\* free-list length plus the number of resident pages is the pool size.
C10_Capacity ==
    /\ Cardinality(DOMAIN page_table) <= MAX_POOL_SIZE
    /\ Len(free_list) + Cardinality(DOMAIN page_table) = MAX_POOL_SIZE

\* C11: in every reachable state the page table is the inverse of frame
\* occupancy: each entry id -> f points to a frame whose occupant has identity
\* id, no two identifiers map to the same frame, and every occupied frame that
\* is not in the free list has its occupant's identifier in the table.
C11_PageTableInverse ==
    /\ \A id \in DOMAIN page_table :
          pages[page_table[id]] # <<>> /\ pages[page_table[id]][1].id = id
    /\ \A a, b \in DOMAIN page_table : page_table[a] = page_table[b] => a = b
    /\ \A f \in Frames :
          (pages[f] # <<>> /\ ~InFreeList(f)) => pages[f][1].id \in DOMAIN page_table

\* the frame holds a resident page with pin_count > 0
PinnedResident(f) ==
    Pinned(f) /\ Resident(pages[f][1].id) /\ page_table[pages[f][1].id] = f

\* C12: in every reachable state each frame index is in exactly one of the
\* free list, the replacer's tracked list and the frames holding a resident
\* page with pin_count > 0: never in two of them, never twice in the free list,
\* never in none.
C12_FramePartition ==
    \A f \in Frames :
        Cardinality({i \in 1 .. Len(free_list) : free_list[i] = f})
          + Cardinality({i \in 1 .. Len(replacer.list) : replacer.list[i][1] = f})
          + (IF PinnedResident(f) THEN 1 ELSE 0) = 1

\* the pin count of every frame's occupant is what it was
PinCountsUnchanged ==
    \A f \in Frames :
        /\ (pages[f] = <<>>) = (pages'[f] = <<>>)
        /\ pages[f] # <<>> => pages'[f][1].pin_count = pages[f][1].pin_count

\* after the step the store holds the page id with the bytes it had in its
\* frame, and the page in the frame is not dirty
WrittenBack(id) ==
    /\ id \in DOMAIN disk'
    /\ disk'[id].id = id
    /\ disk'[id].data = pages[page_table[id]][1].data
    /\ pages'[page_table[id]] # <<>>
    /\ pages'[page_table[id]][1].id = id
    /\ ~pages'[page_table[id]][1].is_dirty

\* C13: after flush_page(id) returned Ok the store holds id with the page's
\* in-memory bytes and the page is not dirty; after flush_all_pages returned Ok
\* the same holds for every resident page; neither call changes a pin count,
\* the page table, the free list or the replacer; flush_page of an id that is
\* not resident returns PageNotFound.
C13_FlushPureWriteBack ==
    [][/\ last'.op = "flush_page" =>
            /\ ~Resident(last'.id) => last'.res = "PageNotFound"
            /\ (Resident(last'.id) /\ last'.res = "Ok") => WrittenBack(last'.id)
       /\ (last'.op = "flush_all_pages" /\ last'.res = "Ok") =>
            \A id \in PageIds : Resident(id) => WrittenBack(id)
       /\ last'.op \in {"flush_page", "flush_all_pages"} =>
            /\ PinCountsUnchanged
            /\ UNCHANGED <<page_table, free_list, replacer>>]_vars

\* C18: when new_page or fetch_page obtains its frame from the replacer, the
\* evicted occupant's page-table entry is removed, whether the occupant was
\* dirty or clean, so that unpin_page, flush_page and delete_page of the
\* evicted identifier right after the call return PageNotFound (they do so
\* exactly when the identifier is not in the page table).
C18_EvictedEntryRemoved ==
    [][(Installed(last') /\ last'.from = "victim" /\ last'.evicted # <<>>
          /\ last'.evicted[1].id # last'.id) =>
         last'.evicted[1].id \notin DOMAIN page_table']_vars

\* C20: a fetch_page(id) that fails on a miss because the store returns
\* PageNotFound leaves the free list, the page table, the frames, the replacer
\* and the store as they were before the call.
C20_FailedFetchChangesNothing ==
    [][(last'.op = "fetch_page" /\ last'.res = "PageNotFound") =>
         UNCHANGED <<free_list, page_table, pages, replacer, disk>>]_vars

\* the frames of a replacer list, in list order
FramesOf(l) == [i \in 1 .. Len(l) |-> l[i][1]]

\* C14: in any reachable replacer state victim() returns the tracked frame
\* that was unpinned first, so that repeated victim() calls with no pin or
\* unpin in between return the tracked frames in the order of their unpins: a
\* frame unpinned later is never returned before a tracked frame unpinned
\* earlier.  (order holds the tracked frames in the order of their unpins; a
\* victim() call takes the returned frame out of it.)
C14_ClockOrder ==
    [][(last'.op = "victim" /\ order # <<>>) =>
         (last'.res = "Some" /\ last'.frame = Head(order))]_vars

\* victim() has returned the first of three tracked frames that were unpinned
\* in the order 2, 1, 0
C14_Witness ==
    /\ last.op = "victim" /\ last.res = "Some"
    /\ Len(order) = 2
    /\ last.frame > order[1] /\ order[1] > order[2]

\* C15: after pin(f) the replacer does not track f, the tracked count has
\* dropped by one if f was tracked and not at all otherwise, and the other
\* tracked frames keep their relative order; victim() returns only frames that
\* were unpinned and not pinned since, so never f until a later unpin(f).
C15_PinCancelsEligibility ==
    [][/\ last'.op = "pin" =>
            /\ ~Tracked(replacer', last'.id)
            /\ Len(replacer'.list) =
                 Len(replacer.list) - (IF Tracked(replacer, last'.id) THEN 1 ELSE 0)
            /\ FramesOf(replacer'.list) = Without(FramesOf(replacer.list), last'.id)
       /\ (last'.op = "victim" /\ last'.res = "Some") => InSeq(order, last'.frame)]_vars

\* pin(f) has just taken a tracked frame out of a list that tracks two others
C15_Witness ==
    /\ last.op = "pin" /\ last.from = "hit"
    /\ Len(replacer.list) = 2
    /\ ~Tracked(replacer, last.id)

\* a successful new_page returns an identifier no earlier new_page returned:
\* the k-th successful call returns k
FreshId ==
    (last'.op = "new_page" /\ last'.res = "Ok") =>
        (last'.id \notin issued /\ last'.id = Cardinality(issued) + 1)

\* C16 as claimed: the identifiers returned by successful new_page calls are
\* pairwise distinct (the k-th successful call returns k, deletions or not),
\* and once MAX_NUM_DISK_PAGES identifiers have been issued every later
\* new_page returns OutOfStorage.
C16_FreshIdsThenOutOfStorage ==
    [][/\ FreshId
       /\ (last'.op = "new_page" /\ Cardinality(issued) = MAX_NUM_DISK_PAGES) =>
             last'.res = "OutOfStorage"]_vars

\* C16, amended: the identifiers returned by successful new_page calls are
\* pairwise distinct (the k-th successful call returns k, deletions or not),
\* and once MAX_NUM_DISK_PAGES identifiers have been issued every later
\* new_page fails: with PoolExhausted when the free list and the replacer are
\* both empty (the frame is acquired before the identifier is asked for), with
\* OutOfStorage otherwise.
C16_FreshIdsThenNoNewPage ==
    [][/\ FreshId
       /\ (last'.op = "new_page" /\ Cardinality(issued) = MAX_NUM_DISK_PAGES) =>
             last'.res = (IF free_list = <<>> /\ replacer.list = <<>>
                          THEN "PoolExhausted" ELSE "OutOfStorage")]_vars

\* with every identifier issued and one of them deleted since, a new_page has
\* found a frame and returned OutOfStorage
C16_Witness ==
    /\ last.op = "new_page" /\ last.res = "OutOfStorage"
    /\ Cardinality(issued) = MAX_NUM_DISK_PAGES
    /\ deleted # {}

\* the handler has locked the manager and has not yet built its response: its
\* core call is under way or has returned
InCall(p) == p \in {"locked", "ok", "err"}

\* C17: with several handlers running at a time, a handler holds the mutex
\* from before its core operation until it has taken the snapshot for its
\* response, and while it does no step of another handler changes the pool:
\* no operation of another handler falls inside its core operation or between
\* that operation and its snapshot.
C17_HandlersSerialized ==
    [][\A h \in Handlers :
         /\ InCall(pc'[h]) => mutex' = <<h>>
         /\ (InCall(pc[h]) /\ pc'[h] = pc[h]) => UNCHANGED poolVars]_vars

\* a handler's core call has returned Ok and its snapshot is not taken yet,
\* while another handler waits for the mutex, calls having been served before
C17_Witness ==
    \E h, g \in Handlers :
        /\ h # g
        /\ pc[h] = "ok" /\ mutex = <<h>>
        /\ pc[g] = "start"
        /\ nops >= 2

\* C19: for every identifier a successful new_page returned and no
\* delete_page has deleted since, fetch_page(id) never returns PageNotFound,
\* whether the page is still in the pool or was unpinned (dirty or clean) and
\* evicted in between.
C19_AllocatedPageReadable ==
    (last.op = "fetch_page" /\ last.id \in issued \ deleted) =>
        last.res # "PageNotFound"

\* C21: no sequence of public operations reaches a panic!("not possible!")
\* branch: in every reachable state each page-table entry points to a frame
\* slot that is occupied, so every failure of an operation is a PageError
\* returned to the caller.
C21_NoPanic ==
    /\ ~panicked
    /\ last.res # "panic"
    /\ \A id \in DOMAIN page_table : pages[page_table[id]] # <<>>

\* the page id is in frame f before and after the step, without having been
\* installed anew by it
StaysIn(id, f) ==
    /\ Resident(id) /\ page_table[id] = f
    /\ id \in DOMAIN page_table' /\ page_table'[id] = f
    /\ pages'[f] # <<>> /\ pages'[f][1].id = id
    /\ ~(Installed(last') /\ last'.frame = f)

\* C22: a resident page is dirty if and only if unpin_page(id, true) has been
\* called on it since it was last installed in its frame (by new_page or by a
\* fetch_page miss) or last flushed.  Step by step: a page just installed is
\* not dirty; an unpin_page(id, is_dirty) that returns Ok leaves the flag of
\* page id at (flag or is_dirty), so unpin_page(id, false) never clears it; a
\* flush that returns Ok clears it; no other call changes it.
C22_DirtyFlag ==
    [][/\ Installed(last') => ~pages'[last'.frame][1].is_dirty
       /\ \A id \in PageIds : \A f \in Frames :
            StaysIn(id, f) =>
              pages'[f][1].is_dirty =
                (IF last'.op = "unpin_page" /\ last'.id = id /\ last'.res = "Ok"
                 THEN pages[f][1].is_dirty \/ last'.is_dirty
                 ELSE IF /\ last'.res = "Ok"
                         /\ \/ last'.op = "flush_all_pages"
                            \/ last'.op = "flush_page" /\ last'.id = id
                 THEN FALSE
                 ELSE pages[f][1].is_dirty)]_vars

\* how many entries of a replacer list hold the frame
Entries(l, f) == Cardinality({i \in 1 .. Len(l) : l[i][1] = f})

\* C23: unpin(f) on a frame the replacer already tracks changes nothing, so
\* in every reachable state each frame appears at most once in the tracked
\* list; and unpin_page on a resident page whose pin_count is already 0
\* returns Ok, leaves pin_count at 0 and adds no second entry for its frame.
C23_UnpinIdempotent ==
    [][/\ \A i \in 1 .. Len(replacer'.list) :
            /\ Entries(replacer'.list, replacer'.list[i][1]) = 1
            /\ unpin(replacer', replacer'.list[i][1]) = replacer'
       /\ (/\ last'.op = "unpin_page"
           /\ Resident(last'.id)
           /\ pages[page_table[last'.id]][1].pin_count = 0) =>
            LET f == page_table[last'.id]
            IN /\ last'.res = "Ok"
               /\ pages'[f] # <<>> /\ pages'[f][1].pin_count = 0
               /\ Entries(replacer'.list, f) <= 1
               /\ Tracked(replacer, f) => replacer' = replacer]_vars

\* the third call of a run, after new_page() -> 1 and unpin_page(1, true), is
\* an unpin_page(1, false) on the page whose pin_count is 0 already
C23_Witness ==
    /\ nops = 3 /\ num_pages = 1 /\ deleted = {} /\ DOMAIN disk = {}
    /\ last.op = "unpin_page" /\ last.id = 1 /\ ~last.is_dirty /\ last.res = "Ok"
    /\ Resident(1)
    /\ pages[page_table[1]][1].is_dirty
    /\ pages[page_table[1]][1].pin_count = 0

\* the cursor is an index of the list, or 0 when the list is empty
ValidCursor(r) ==
    IF r.list = <<>> THEN r.current = 0
    ELSE r.current \in 0 .. (Len(r.list) - 1)

\* C24: victim() always terminates: on an empty list it returns None and
\* scans nothing; with n > 0 tracked frames it returns Some(frame) after at
\* most n clear-and-advance steps and one removal; the cursor is a valid index
\* (0 for an empty list) after every victim, pin and unpin.
C24_VictimTerminates ==
    [][/\ last'.op = "victim" =>
            IF replacer.list = <<>>
            THEN last'.res = "None" /\ replacer' = replacer
            ELSE /\ last'.res = "Some"
                 /\ ScanSteps(replacer, 0) <= Len(replacer.list)
                 /\ Len(replacer'.list) = Len(replacer.list) - 1
                 /\ ~Tracked(replacer', last'.frame)
       /\ last'.op \in {"victim", "pin", "unpin"} => ValidCursor(replacer')]_vars

\* the fourth call of a run is a victim() that found three frames with their
\* reference bits set: it cleared all three before it took one
C24_Witness ==
    /\ nops = 4
    /\ last.op = "victim" /\ last.res = "Some"
    /\ Len(replacer.list) = 2
    /\ \A i \in 1 .. 2 : ~replacer.list[i][2]
====
